---- MODULE Spec2Model ----
(***************************************************************************)
(* A model of rspy: the process-table differ (ProcessScanner), the bus     *)
(* census (DBusScanner), the configuration and watch setup (Config,        *)
(* FsWatcher), the inotify read loop and the scan scheduler (Scanner).     *)
(* Each component has its own specification over the shared variables; a   *)
(* component that a specification does not run stays in its initial state. *)
(***************************************************************************)
EXTENDS Integers, Sequences, FiniteSets, TLC

(***************************************************************************)
(* Bounds of the model.                                                    *)
(***************************************************************************)
\* PIDs of the modelled host are 1..MaxPid.
MaxPid == 2

\* PIDs the bus census reports are 1..MaxBusPid.
MaxBusPid == 3

\* The longest process list one GetProcesses call returns.
MaxCensus == 2

\* The most inotify records one read returns.
MaxRecords == 2

\* The most triggers pending in the trigger channel, and the most verbose
\* events pending in the event channel.
MaxQueue == 3

PIDs == 1..MaxPid

BusPIDs == 1..MaxBusPid

\* The longest a scan_processes() call of the scheduler takes, in ms.
MaxScanMs == 10

\* The clocks of the scheduler saturate here, in ms: above every duration
\* the scheduler compares them with.
ClockCap == 200

\* The fixed placeholder of core/constants.rs (UNKNOWN_COMMAND).
UNKNOWN_COMMAND == "<unknown command>"

\* core/constants.rs
DEFAULT_SCAN_INTERVAL_MS == 100

DBUS_DEFAULT_SLEEP_MS == 100

SCANNER_MAX_TIMEOUT_SECS == 1

\* The grain of the clock, in ms: a tenth of the default scan interval.
TickMs == DEFAULT_SCAN_INTERVAL_MS \div 10

DEFAULT_RECURSIVE_DIRS == <<"/usr", "/tmp", "/etc", "/home", "/var", "/opt">>

LOW_RESOURCE_WATCH_DIRS == <<"/etc/ld.so.cache">>

\* The inotify masks of libc that filesystem.rs requests.
IN_OPEN == 32

IN_ALL_EVENTS == 4095

\* Option<T> of a number: None, or Some(x).
None == <<>>

Some(x) == <<x>>

\* An object that has not been constructed.
Absent == [absent |-> TRUE]

VARIABLES
    \* ---- ProcessScanner (monitoring/process.rs) ----
    seen_pids,      \* HashSet<i32>: PIDs reported and believed alive
    current_pids,   \* HashSet<i32>: PIDs of the snapshot of the last scan
    new_pids,       \* Vec<i32>: PIDs the last scan found not in seen_pids
    scan_result,    \* what the last scan_processes() returned
    scan_events,    \* the Logger::event lines the last scan emitted, in order
    \* history of the scans, for the claims
    run_reports,    \* per PID: reports in its current contiguous presence interval
    run_lookup_ok,  \* per PID: its lookup succeeded at some scan of that interval
    run_returns,    \* per PID: the number of presence intervals begun so far (capped)
    last_failed,    \* new PIDs whose lookup failed in the last scan
    prev_failed,    \* new PIDs whose lookup failed in the scan before the last
    last_nocmdline, \* new PIDs of the last scan with only the cmdline unreadable
    \* ---- DBusScanner (monitoring/dbus.rs) ----
    printed_processes, \* FxHashSet<u32>: PIDs already announced
    bus_pc,         \* where start_listening is: "unspawned", "connect", "poll", "sleep", "returned"
    bus_result,     \* what start_listening returned: "none" while it runs, or "err"
    bus_events,     \* the Logger::dbus_event_with_uid lines of the last poll
    \* history of the polls, for the claims
    bus_reports,    \* per PID: announcements so far (capped)
    bus_phase,      \* per PID: 0 never in a census, 1 in the last census, 2 in an
                    \* earlier census but not the last, 3 back after such an absence
    \* ---- Config and Runtime::run up to the start of the threads ----
    config,         \* the parsed Config
    run_pc,         \* "parse", "watcher", "scanner", "ready", or "exit1"
    \* ---- FsWatcher (monitoring/filesystem.rs) ----
    fs_watcher,     \* Absent, or the FsWatcher's recursive_directories,
                    \* direct_directories, low_resource, debug, print_events
    wd_to_path,     \* FxHashMap<i32, PathBuf>, as a set of <<wd, path>>
    watch_requests, \* the inotify_add_watch calls made, in order: [path, mask, wd]
    setup_log,      \* the Logger::error lines of setup_watches, in order
    setup_answers,  \* what inotify_add_watch answered for each path of the setup
    setup_result,   \* what setup_watches returned: "none" (not called), "ok", "err"
    fs_pc,          \* the watcher thread: "unstarted", "reading", "ended"
    fs_result,      \* what start_watching returned to its caller: "none" (not
                    \* called yet), "ok", "err"
    fs_last,        \* the last read: the records the kernel wrote, the records
                    \* decoded, the verbose events and the triggers it sent,
                    \* all its channel sends in the order they were made, and
                    \* the buffer offsets at which it read a record header
    event_q,        \* the verbose-event channel (Sender<String> to Receiver)
    trigger_q,      \* the trigger channel: the number of () pending
    trigger_tx,     \* TRUE while a Sender<()> of the trigger channel exists
    \* ---- Scanner (monitoring/scanner.rs) ----
    scanner,        \* Absent, or the Scanner's interval, dbus_interval, dbus_only,
                    \* dbus_scanner (present or not)
    is_active,      \* Arc<AtomicBool>
    sched_pc,       \* the scheduler: "new" (start not called), "none" (no thread),
                    \* "top" (head of the loop), "recv" (in recv_timeout),
                    \* "scan_interval", "scan_trigger" (in scan_processes), "exited",
                    \* "sleep" (in thread::sleep while inactive)
    since_last_scan,          \* Instant::now() - last_process_scan, in ms
    time_since_last_process,  \* the local of that name, set at the head of the loop
    timeout,        \* the local of that name, in ms
    waited,         \* ms spent in the current recv_timeout
    scan_time,      \* ms spent in the current scan_processes
    slept,          \* ms spent in the current thread::sleep of the inactive scheduler
    \* history of the scheduler, for the claims
    h_since_scan,   \* ms since the last scan ended (or the thread started)
    scan_started_at,\* h_since_scan when the last scan began
    h_track,        \* whether the arrivals below are recorded
    h_scanned,      \* a scan has begun since the thread started (recorded
                    \* like the arrivals)
    h_arrived,      \* triggers sent since the last scan ended (capped)
    h_first_at,     \* h_since_scan when the first of them was sent
    h_last_at,      \* h_since_scan when the last of them was sent
    h_dropped,      \* triggers received and ignored since the last scan ended (capped)
    h_spaced,       \* every one of them came more than the debounce floor after
                    \* the one before it and after the last scan
    h_last,         \* how the thread last left the head of the loop or recv_timeout:
                    \* "none", "interval", "triggered", "drained", "ignored",
                    \* "timeout", "disconnected"
    \* ---- Runtime: the shutdown flag and event_loop (rspy.rs) ----
    running,        \* Arc<AtomicBool>, true from Runtime::new
    loop_pc,        \* event_loop: "unstarted", "head" (at the flag check), "recv"
                    \* (in recv_timeout), "done" (returned)
    event_tx,       \* TRUE while a Sender<String> of the verbose-event channel exists
    loop_out,       \* the last line event_loop logged: "none", "fs", "shutting down",
                    \* "disconnected"
    h_after         \* verbose events event_loop took since the flag was cleared (capped)

procCode == <<seen_pids, current_pids, new_pids, scan_result, scan_events>>
procHist == <<run_reports, run_lookup_ok, run_returns, last_failed, prev_failed,
             last_nocmdline>>
procVars == <<procCode, procHist>>

busCode == <<printed_processes, bus_pc, bus_result, bus_events>>
busHist == <<bus_reports, bus_phase>>
busVars == <<busCode, busHist>>

cfgVars == <<config, run_pc>>
fsSetupVars == <<fs_watcher, wd_to_path, watch_requests, setup_log, setup_answers,
                 setup_result>>
fsRunVars == <<fs_pc, fs_result, fs_last, event_q>>
chanVars == <<trigger_q, trigger_tx>>
scannerVars == <<scanner>>
schedCode == <<is_active, sched_pc, since_last_scan, time_since_last_process, timeout,
               waited, scan_time, slept>>
schedHist == <<h_since_scan, scan_started_at, h_track, h_scanned, h_arrived, h_first_at,
               h_last_at,
               h_dropped, h_spaced, h_last>>
schedVars == <<schedCode, schedHist>>

loopVars == <<running, loop_pc, event_tx, loop_out, h_after>>

vars == <<procVars, busVars, cfgVars, fsSetupVars, fsRunVars, chanVars, scannerVars,
          schedVars, loopVars>>

(***************************************************************************)
(* ProcessScanner                                                          *)
(***************************************************************************)
SeqToSet(s) == {s[i] : i \in 1..Len(s)}

\* The process table as all_processes() returns it: /proc is enumerated in
\* ascending PID order, every PID once.
RECURSIVE Ascending(_)
Ascending(S) ==
    IF S = {} THEN <<>>
    ELSE LET m == CHOOSE x \in S : \A y \in S : x <= y
         IN  <<m>> \o Ascending(S \ {m})

Snapshots == {Ascending(S) : S \in SUBSET PIDs}

\* What the per-PID lookups of process_new_pid find: the /proc/<pid> record
\* (Process::new), its cmdline and its status, each readable or not.
Lookups == {"ok", "no_cmdline", "no_process", "no_status", "no_cmdline_no_status"}

\* process_new_pid: Process::new(pid)?, cmdline().unwrap_or_else(placeholder),
\* status()?, Logger::event(Some(ruid), pid, cmdline), Ok(()).
process_new_pid(pid, lookup) ==
    IF lookup = "no_process"
    THEN [ok |-> FALSE, event |-> <<>>]
    ELSE LET cmdline == IF lookup \in {"no_cmdline", "no_cmdline_no_status"}
                        THEN UNKNOWN_COMMAND ELSE "cmdline"
         IN  IF lookup \in {"no_status", "no_cmdline_no_status"}
             THEN [ok |-> FALSE, event |-> <<>>]
             ELSE [ok |-> TRUE,
                   event |-> <<[uid |-> "ruid", pid |-> pid, cmd |-> cmdline]>>]

\* First loop of scan_processes (lines 35-42): every PID of the snapshot goes
\* into current_pids, and into seen_pids and new_pids when seen_pids lacked it.
RECURSIVE CollectNew(_, _, _)
CollectNew(processes, seen, acc) ==
    IF processes = <<>> THEN [seen |-> seen, new |-> acc]
    ELSE LET pid == Head(processes)
         IN  IF pid \in seen
             THEN CollectNew(Tail(processes), seen, acc)
             ELSE CollectNew(Tail(processes), seen \cup {pid}, Append(acc, pid))

\* The Err arm of the second loop (lines 48-52): the PID leaves seen_pids.
OnLookupFailure_Keep(seen, pid) == seen

OnLookupFailure(seen, pid) == seen \ {pid}

\* Second loop of scan_processes (lines 44-54).
RECURSIVE ProcessNew(_, _, _, _, _)
ProcessNew(new, lookup, seen, count, events) ==
    IF new = <<>> THEN [seen |-> seen, new_count |-> count, events |-> events]
    ELSE LET pid == Head(new)
             r   == process_new_pid(pid, lookup[pid])
         IN  IF r.ok
             THEN ProcessNew(Tail(new), lookup, seen, count + 1, events \o r.event)
             ELSE ProcessNew(Tail(new), lookup, OnLookupFailure(seen, pid), count, events)

\* seen_pids.retain(|pid| current_pids.contains(pid)) (line 56).
Retain_Nothing(seen, current) == seen

Retain_Merged(seen, current) == {pid \in seen : pid \in current} \cup printed_processes

Retain(seen, current) == {pid \in seen : pid \in current}

\* scan_processes on a readable process table: the post-state of the scanner.
ScanOutcome(seen, processes, lookup) ==
    LET c == CollectNew(processes, seen, <<>>)
        p == ProcessNew(c.new, lookup, c.seen, 0, <<>>)
    IN  [seen_pids    |-> Retain(p.seen, SeqToSet(processes)),
         current_pids |-> SeqToSet(processes),
         new_pids     |-> c.new,
         new_count    |-> p.new_count,
         events       |-> p.events]

\* scan_processes that clears its sets before it enumerates.
scan_processes_ClearFirst(enumerated, processes, lookup) ==
    IF ~enumerated
    THEN /\ scan_result' = [ok |-> FALSE, new_count |-> 0]
         /\ scan_events' = <<>>
         /\ seen_pids' = {}
         /\ current_pids' = {}
         /\ new_pids' = <<>>
    ELSE LET o == ScanOutcome(seen_pids, processes, lookup)
         IN  /\ seen_pids' = o.seen_pids
             /\ current_pids' = o.current_pids
             /\ new_pids' = o.new_pids
             /\ scan_result' = [ok |-> TRUE, new_count |-> o.new_count]
             /\ scan_events' = o.events

\* scan_processes(): all_processes()? fails before any field is touched, or
\* the scan runs on the snapshot `processes` with the lookups `lookup`.
scan_processes(enumerated, processes, lookup) ==
    IF ~enumerated
    THEN /\ scan_result' = [ok |-> FALSE, new_count |-> 0]
         /\ scan_events' = <<>>
         /\ UNCHANGED <<seen_pids, current_pids, new_pids>>
    ELSE LET o == ScanOutcome(seen_pids, processes, lookup)
         IN  /\ seen_pids' = o.seen_pids
             /\ current_pids' = o.current_pids
             /\ new_pids' = o.new_pids
             /\ scan_result' = [ok |-> TRUE, new_count |-> o.new_count]
             /\ scan_events' = o.events

\* The PIDs of a snapshot that are not in seen when the scan starts.
NewOf(seen, processes) == {pid \in SeqToSet(processes) : pid \notin seen}

ProcInit ==
    /\ seen_pids = {}
    /\ current_pids = {}
    /\ new_pids = <<>>
    /\ scan_result = [ok |-> TRUE, new_count |-> 0]
    /\ scan_events = <<>>
    /\ run_reports = [p \in PIDs |-> 0]
    /\ run_lookup_ok = [p \in PIDs |-> FALSE]
    /\ run_returns = [p \in PIDs |-> 0]
    /\ last_failed = {}
    /\ prev_failed = {}
    /\ last_nocmdline = {}

Reported(events) == {events[i].pid : i \in 1..Len(events)}

\* A lookup resolves the PID when the process record and its status are
\* readable; the command line need not be.
Resolvable(l) == l \in {"ok", "no_cmdline"}

Cap2(n) == IF n > 2 THEN 2 ELSE n

\* The history of one successful scan of `processes`: a PID absent from the
\* snapshot ends its presence interval; a PID present counts its reports.
ProcHistory(processes, lookup) ==
    LET cur  == SeqToSet(processes)
        new  == NewOf(seen_pids, processes)
        okay == {p \in cur : Resolvable(lookup[p])}
    IN  /\ run_reports' = [p \in PIDs |->
              IF p \notin cur THEN 0
              ELSE Cap2(run_reports[p] + IF p \in Reported(scan_events') THEN 1 ELSE 0)]
        /\ run_lookup_ok' = [p \in PIDs |->
              IF p \notin cur THEN FALSE ELSE run_lookup_ok[p] \/ p \in okay]
        /\ run_returns' = [p \in PIDs |->
              IF p \in cur /\ p \notin current_pids
              THEN Cap2(run_returns[p] + 1) ELSE run_returns[p]]
        /\ last_failed' = new \ okay
        /\ prev_failed' = last_failed
        /\ last_nocmdline' = {p \in new : lookup[p] = "no_cmdline"}

notProc == <<busVars, cfgVars, fsSetupVars, fsRunVars, chanVars, scannerVars, schedVars,
             loopVars>>

\* One call of scan() that enumerates the table: the snapshot and, for each
\* PID in it, what a lookup of that PID finds during this scan.
Scan ==
    \E processes \in Snapshots :
        \E lookup \in [SeqToSet(processes) -> Lookups] :
            /\ scan_processes(TRUE, processes, lookup)
            /\ ProcHistory(processes, lookup)
            /\ UNCHANGED notProc

\* One call of scan() whose all_processes() fails: no snapshot is consumed.
ScanEnumFails ==
    /\ scan_processes(FALSE, <<>>, <<>>)
    /\ UNCHANGED <<procHist, notProc>>

ProcNext == Scan \/ ScanEnumFails

(***************************************************************************)
(* DBusScanner                                                             *)
(***************************************************************************)
\* The process lists a GetProcesses call may return: (name, pid, cmdline)
\* tuples, here their PIDs in order; the same PID may occur more than once.
RECURSIVE SeqsUpTo(_, _)
SeqsUpTo(S, n) ==
    IF n = 0 THEN {<<>>}
    ELSE LET shorter == SeqsUpTo(S, n - 1)
         IN  shorter \cup {Append(q, x) : q \in {r \in shorter : Len(r) = n - 1}, x \in S}

Censuses == SeqsUpTo(BusPIDs, MaxCensus)

\* printed_processes.insert(pid) (line 78): the set after the insert.
MarkPrinted_Forget(printed, pid) == printed

MarkPrinted(printed, pid) == printed \cup {pid}

\* The for loop of start_listening (lines 77-82): a PID not yet printed is
\* inserted and announced with the uid lookup_uid found (or none).
RECURSIVE Announce(_, _, _, _)
Announce(processes, uids, printed, events) ==
    IF processes = <<>> THEN [printed |-> printed, events |-> events]
    ELSE LET pid == Head(processes)
         IN  IF pid \notin printed
             THEN Announce(Tail(processes), uids, MarkPrinted(printed, pid),
                           Append(events, [pid |-> pid, cmd |-> "cmdline", uid |-> uids[pid]]))
             ELSE Announce(Tail(processes), uids, printed, events)

\* lookup_uid(pid): Some(ruid), or None when the process or its status is unreadable.
Uids == {"ruid", "none"}

BusInit ==
    /\ printed_processes = {}
    /\ bus_pc = "connect"
    /\ bus_result = "none"
    /\ bus_events = <<>>
    /\ bus_reports = [p \in BusPIDs |-> 0]
    /\ bus_phase = [p \in BusPIDs |-> 0]

notBus == <<procVars, cfgVars, fsSetupVars, fsRunVars, chanVars, scannerVars, schedVars,
            loopVars>>

\* Connection::new_system() (lines 51-54): on failure start_listening returns.
BusConnect ==
    /\ bus_pc = "connect"
    /\ \E connected \in BOOLEAN :
          IF connected
          THEN bus_pc' = "poll" /\ UNCHANGED bus_result
          ELSE bus_pc' = "returned" /\ bus_result' = "err"
    /\ UNCHANGED <<printed_processes, bus_events, busHist, notBus>>

\* One GetProcesses call that answers (lines 72-83), with a process list
\* drawn from `censuses`.
BusPollOf(censuses) ==
    /\ bus_pc = "poll"
    /\ \E processes \in censuses :
          \E uids \in [SeqToSet(processes) -> Uids] :
              LET a   == Announce(processes, uids, printed_processes, <<>>)
                  cur == SeqToSet(processes)
              IN  /\ printed_processes' = a.printed
                  /\ bus_events' = a.events
                  /\ bus_reports' = [p \in BusPIDs |->
                        Cap2(bus_reports[p] + Cardinality(
                            {i \in 1..Len(a.events) : a.events[i].pid = p}))]
                  /\ bus_phase' = [p \in BusPIDs |->
                        IF p \in cur
                        THEN (IF bus_phase[p] \in {2, 3} THEN 3 ELSE 1)
                        ELSE (IF bus_phase[p] = 0 THEN 0 ELSE 2)]
    /\ bus_pc' = "sleep"
    /\ UNCHANGED <<bus_result, notBus>>

BusPoll == BusPollOf(Censuses)

\* One GetProcesses call that fails (lines 84-87): start_listening returns Err.
BusPollFails_Retry ==
    /\ bus_pc = "poll"
    /\ bus_pc' = "sleep"
    /\ bus_result' = "err"
    /\ bus_events' = <<>>
    /\ UNCHANGED <<printed_processes, busHist, notBus>>

BusPollFails ==
    /\ bus_pc = "poll"
    /\ bus_pc' = "returned"
    /\ bus_result' = "err"
    /\ bus_events' = <<>>
    /\ UNCHANGED <<printed_processes, busHist, notBus>>

\* std::thread::sleep(sleep_duration) ends (line 90).
BusWake ==
    /\ bus_pc = "sleep"
    /\ bus_pc' = "poll"
    /\ UNCHANGED <<printed_processes, bus_result, bus_events, busHist, notBus>>

BusNext == BusConnect \/ BusPoll \/ BusPollFails \/ BusWake

(***************************************************************************)
(* Config (core/config.rs)                                                 *)
(***************************************************************************)
\* The command lines the model parses.
Configs ==
    [print_filesystem_events : BOOLEAN,
     recursive_watch_dirs : {<<>>, <<"/etc">>},
     direct_watch_dirs : {<<>>, <<"/tmp">>},
     low_resource : BOOLEAN,
     scan_interval_ms : {None, Some(50)},
     dbus_interval_ms : {None},
     debug : BOOLEAN,
     dbus : {FALSE},
     dbus_only : BOOLEAN,
     no_interval : BOOLEAN]

\* Config::scan_interval
scan_interval(c) ==
    IF c.no_interval THEN None
    ELSE IF c.scan_interval_ms = None THEN Some(DEFAULT_SCAN_INTERVAL_MS)
    ELSE c.scan_interval_ms

\* Config::dbus_interval
dbus_interval(c) ==
    IF c.dbus_interval_ms # None THEN c.dbus_interval_ms ELSE Some(DBUS_DEFAULT_SLEEP_MS)

\* Config::get_direct_watch_dirs
get_direct_watch_dirs(c) ==
    IF c.low_resource
    THEN c.direct_watch_dirs \o LOW_RESOURCE_WATCH_DIRS
    ELSE c.direct_watch_dirs

\* Config::get_recursive_watch_dirs
get_recursive_watch_dirs_Defaults(c) ==
    IF c.recursive_watch_dirs # <<>> THEN c.recursive_watch_dirs
    ELSE IF c.direct_watch_dirs = <<>> THEN DEFAULT_RECURSIVE_DIRS
    ELSE <<>>

get_recursive_watch_dirs(c) ==
    IF c.recursive_watch_dirs # <<>> THEN c.recursive_watch_dirs
    ELSE IF ~c.low_resource /\ c.direct_watch_dirs = <<>> THEN DEFAULT_RECURSIVE_DIRS
    ELSE <<>>

\* Config::validate: Ok, or the error that makes Config::new exit(1).
validate(c) ==
    IF c.low_resource /\ c.recursive_watch_dirs # <<>> THEN "err_recursive"
    ELSE IF c.low_resource /\ c.direct_watch_dirs # <<>> THEN "err_direct"
    ELSE "ok"

(***************************************************************************)
(* FsWatcher: construction and setup_watches                               *)
(***************************************************************************)
\* The directory tree of the modelled host: for every path that exists,
\* whether it is a directory, its entries, and whether its name is UTF-8.
HostTree ==
    [p \in {"/usr", "/tmp", "/etc", "/home", "/var", "/opt",
            "/etc/ld.so.cache", "/etc/ssl", "/tmp/<non-utf8>"} |->
        CASE p = "/etc" -> [dir |-> TRUE, kids |-> <<"/etc/ld.so.cache", "/etc/ssl">>,
                            utf8 |-> TRUE]
          [] p = "/tmp" -> [dir |-> TRUE, kids |-> <<"/tmp/<non-utf8>">>, utf8 |-> TRUE]
          [] p = "/etc/ld.so.cache" -> [dir |-> FALSE, kids |-> <<>>, utf8 |-> TRUE]
          [] p = "/tmp/<non-utf8>" -> [dir |-> TRUE, kids |-> <<>>, utf8 |-> FALSE]
          [] OTHER -> [dir |-> TRUE, kids |-> <<>>, utf8 |-> TRUE]]

HostPaths == DOMAIN HostTree

\* WalkDir::new(path).follow_links(true), errors dropped, directories only
\* (lines 127-131): the directories under `path`, parents first.
RECURSIVE WalkDirs(_)
RECURSIVE WalkAll(_)
WalkAll(paths) ==
    IF paths = <<>> THEN <<>> ELSE WalkDirs(Head(paths)) \o WalkAll(Tail(paths))

WalkDirs(path) ==
    IF path \notin HostPaths THEN <<>>
    ELSE IF ~HostTree[path].dir THEN <<>>
    ELSE <<path>> \o WalkAll(HostTree[path].kids)

\* The mask add_watch_single passes to inotify_add_watch (lines 155-159).
WatchMask(low_resource) == IF low_resource THEN IN_OPEN ELSE IN_ALL_EVENTS

\* What inotify_add_watch answers for a path.
Registrations == {"ok", "EACCES", "ENOENT"}

\* The watch descriptor the kernel returns: the one the path already has,
\* or the next unused one.
KernelWd(requests, path) ==
    LET had == {i \in 1..Len(requests) : requests[i].path = path /\ requests[i].wd # -1}
        wds == {requests[i].wd : i \in 1..Len(requests)} \ {-1}
    IN  IF had # {} THEN requests[CHOOSE i \in had : TRUE].wd
        ELSE Cardinality(wds) + 1

\* add_watch_single that gives a failed registration back as its error.
add_watch_single_Abort(w, path, low_resource, debug, answer) ==
    IF path \in HostPaths /\ ~HostTree[path].utf8
    THEN [w EXCEPT !.log = Append(@, [line |-> "invalid UTF-8", path |-> path])]
    ELSE LET wd == IF answer = "ok" THEN KernelWd(w.requests, path) ELSE -1
             req == Append(w.requests,
                           [path |-> path, mask |-> WatchMask(low_resource), wd |-> wd])
         IN  IF wd # -1
             THEN [w EXCEPT !.requests = req,
                            !.wd_to_path = {e \in @ : e[1] # wd} \cup {<<wd, path>>}]
             ELSE [w EXCEPT !.requests = req, !.result = "err"]

\* add_watch_single (lines 141-175) on the watcher state w = [wd_to_path,
\* requests, log, result], with the kernel's answer for this path.  Every
\* branch returns Ok(()): the one Err, CString::new on a path with an
\* interior NUL byte (lines 143-144), cannot happen for a path that came
\* from the command line or from the directory walk, so w.result stays as
\* it is.
add_watch_single(w, path, low_resource, debug, answer) ==
    IF path \in HostPaths /\ ~HostTree[path].utf8
    THEN [w EXCEPT !.log = Append(@, [line |-> "invalid UTF-8", path |-> path])]
    ELSE LET wd == IF answer = "ok" THEN KernelWd(w.requests, path) ELSE -1
             req == Append(w.requests,
                           [path |-> path, mask |-> WatchMask(low_resource), wd |-> wd])
         IN  IF wd # -1
             THEN [w EXCEPT !.requests = req,
                            !.wd_to_path = {e \in @ : e[1] # wd} \cup {<<wd, path>>}]
             ELSE IF debug \/ answer # "EACCES"
             THEN [w EXCEPT !.requests = req,
                            !.log = Append(@, [line |-> "failed to monitor", path |-> path])]
             ELSE [w EXCEPT !.requests = req]

\* add_watch over a list of paths, one add_watch_single each; the `?` of
\* lines 115, 119, 133 and 136 returns at the first Err.
RECURSIVE AddAll(_, _, _, _, _)
AddAll(w, paths, low_resource, debug, answers) ==
    IF paths = <<>> \/ w.result = "err" THEN w
    ELSE AddAll(add_watch_single(w, Head(paths), low_resource, debug, answers[Head(paths)]),
                Tail(paths), low_resource, debug, answers)

\* The paths setup_watches registers (lines 110-139): every directory under
\* each recursive root, then each direct root itself.
SetupPaths(recursive, direct) == WalkAll(recursive) \o direct

\* setup_watches (lines 110-123).
setup_watches(recursive, direct, low_resource, debug, answers) ==
    AddAll([wd_to_path |-> {}, requests |-> <<>>, log |-> <<>>, result |-> "ok"],
           SetupPaths(recursive, direct), low_resource, debug, answers)

(***************************************************************************)
(* FsWatcher: the read loop of start_watching                              *)
(***************************************************************************)
\* size_of::<InotifyEvent>(): wd, mask, cookie and len, four bytes each.
EVENT_SIZE == 16

BUFFER_SIZE == 1024

\* The event bits get_event_string names, in its order (lines 14-22, 49-78).
EventBits ==
    <<[bit |-> 1, name |-> "ACCESS"], [bit |-> 2, name |-> "MODIFY"],
      [bit |-> 4, name |-> "ATTRIB"], [bit |-> 8, name |-> "CLOSE_WRITE"],
      [bit |-> 16, name |-> "CLOSE_NOWRITE"], [bit |-> IN_OPEN, name |-> "OPEN"],
      [bit |-> 64, name |-> "MOVED_FROM"], [bit |-> 128, name |-> "MOVED_TO"],
      [bit |-> 256, name |-> "CREATE"], [bit |-> 512, name |-> "DELETE"]>>

\* mask & bit != 0, for a bit that is a power of two.
HasBit(mask, bit) == (mask \div bit) % 2 = 1

\* get_event_string: the names of the bits set, in order (their join by "|").
RECURSIVE EventNames(_, _)
EventNames(mask, i) ==
    IF i > Len(EventBits) THEN <<>>
    ELSE (IF HasBit(mask, EventBits[i].bit) THEN <<EventBits[i].name>> ELSE <<>>)
         \o EventNames(mask, i + 1)

get_event_string(mask) == EventNames(mask, 1)

\* The records the kernel may write into the buffer: a watch descriptor
\* (9 is one the registry does not hold), an event mask, and the length of
\* the name that follows the header, padded to a multiple of 16.
Records == [wd : {1, 9}, mask : {IN_OPEN, 256 + 2}, len : {0, 16}]

Reads == SeqsUpTo(Records, MaxRecords)

\* The bytes a read of these records returns.
RECURSIVE ReadSize(_)
ReadSize(records) ==
    IF records = <<>> THEN 0
    ELSE EVENT_SIZE + Head(records).len + ReadSize(Tail(records))

\* The header the cast at buffer[offset] reads (line 199): the record that
\* starts there; at any other offset the bytes are name padding, zeroes.
EventAt(records, offset) ==
    LET starts == {i \in 1..Len(records) : ReadSize(SubSeq(records, 1, i - 1)) = offset}
    IN  IF starts # {} THEN records[CHOOSE i \in starts : TRUE]
        ELSE [wd |-> 0, mask |-> 0, len |-> 0]

\* offset += size_of::<InotifyEvent>() + event.len (line 225)
Advance_HeaderOnly(offset, event) == offset + EVENT_SIZE

Advance(offset, event) == offset + EVENT_SIZE + event.len

\* wd_to_path.get(&wd)
PathOf(registry, wd) == {e[2] : e \in {x \in registry : x[1] = wd}}

\* One iteration of the while loop (lines 198-225): the event string sent on
\* the verbose channel when print_events is on and the wd resolves.
Forwarded(registry, print_events, event) ==
    IF print_events /\ PathOf(registry, event.wd) # {}
    THEN <<[events |-> get_event_string(event.mask),
            path |-> CHOOSE q \in PathOf(registry, event.wd) : TRUE]>>
    ELSE <<>>

\* The while loop (lines 194-226) from `offset` on.
RECURSIVE Decode(_, _, _, _, _, _)
Decode(records, read_size, registry, print_events, offset, acc) ==
    IF offset < read_size
    THEN LET event == EventAt(records, offset)
         IN  Decode(records, read_size, registry, print_events, Advance(offset, event),
                    [decoded |-> Append(acc.decoded, event),
                     has_events |-> TRUE,
                     sent |-> acc.sent \o Forwarded(registry, print_events, event)])
    ELSE acc

\* The offsets at which the while loop casts the buffer to an InotifyEvent
\* (lines 197-199, 225), from `offset` on.
RECURSIVE HeaderOffsets(_, _, _)
HeaderOffsets(records, read_size, offset) ==
    IF offset < read_size
    THEN <<offset>> \o HeaderOffsets(records, read_size,
                                     Advance(offset, EventAt(records, offset)))
    ELSE <<>>

\* What libc::read may return for a buffer that holds `records` (lines
\* 252-261): the size of the records, as inotify delivers them; or, for a
\* descriptor that delivers less, any shorter count.
WholeRead(records) == {ReadSize(records)}

ShortReads(records) == {n \in 0..ReadSize(records) : n % (EVENT_SIZE \div 2) = 0}

\* if has_events { trigger_sender.send(()) } (lines 229-238): triggers sent.
TriggersOf(d) == IF d.has_events THEN 1 ELSE 0

\* The channel sends of one read in program order: the sender.send of each
\* iteration of the while loop (line 211), then, after the loop, the
\* trigger_sender.send (line 230).
SendsOf_TriggerFirst(d) ==
    (IF d.has_events THEN <<[ch |-> "trigger", msg |-> <<>>]>> ELSE <<>>)
    \o [i \in 1..Len(d.sent) |-> [ch |-> "event", msg |-> d.sent[i]]]

SendsOf(d) ==
    [i \in 1..Len(d.sent) |-> [ch |-> "event", msg |-> d.sent[i]]]
    \o (IF d.has_events THEN <<[ch |-> "trigger", msg |-> <<>>]>> ELSE <<>>)

NoRead ==
    [records |-> <<>>, read_size |-> 0, decoded |-> <<>>, sent |-> <<>>, triggers |-> 0,
     sends |-> <<>>, offsets |-> <<>>]

FsRunIdle ==
    /\ fs_pc = "unstarted"
    /\ fs_result = "none"
    /\ fs_last = NoRead
    /\ event_q = <<>>

ChanInit ==
    /\ trigger_q = 0
    /\ trigger_tx = TRUE

\* Runtime::new (rspy.rs lines 24-29) and channel() (line 179): the flag is
\* true, run holds a sender, event_loop has not been called.
LoopIdle ==
    /\ running = TRUE
    /\ loop_pc = "unstarted"
    /\ event_tx = TRUE
    /\ loop_out = "none"
    /\ h_after = 0

\* A watcher that setup_watches has set up, about to be started: the
\* registry holds /etc as wd 1.
FsStartedInit ==
    /\ \E pe \in BOOLEAN, dbg \in BOOLEAN :
          fs_watcher = [recursive_directories |-> <<>>,
                        direct_directories |-> <<"/etc">>,
                        print_events |-> pe, low_resource |-> FALSE, debug |-> dbg]
    /\ LET w == setup_watches(<<>>, <<"/etc">>, FALSE, FALSE, [q \in {"/etc"} |-> "ok"])
       IN  /\ wd_to_path = w.wd_to_path
           /\ watch_requests = w.requests
           /\ setup_log = w.log
           /\ setup_answers = [q \in {"/etc"} |-> "ok"]
           /\ setup_result = w.result
    /\ FsRunIdle

notFsRun == <<procVars, busVars, cfgVars, fsSetupVars, scannerVars, schedVars, loopVars>>

\* start_watching (lines 177-186, 246-248): the thread is spawned and Ok(())
\* is returned.
FsStart ==
    /\ fs_pc = "unstarted"
    /\ fs_watcher # Absent
    /\ fs_pc' = "reading"
    /\ fs_result' = "ok"
    /\ UNCHANGED <<fs_last, event_q, chanVars, notFsRun>>

\* One read that succeeds, with its decode loop and its trigger (lines 190-239):
\* the buffer holds `records` and read returned `read_size`.
FsReadSized(records, read_size) ==
    /\ fs_pc = "reading"
    /\ LET d == Decode(records, read_size, wd_to_path, fs_watcher.print_events, 0,
                       [decoded |-> <<>>, has_events |-> FALSE, sent |-> <<>>])
       IN  /\ ReadSize(records) <= BUFFER_SIZE
           /\ Len(event_q) + Len(d.sent) <= MaxQueue
           /\ trigger_q + TriggersOf(d) <= MaxQueue
           /\ fs_last' = [records |-> records, read_size |-> read_size,
                          decoded |-> d.decoded, sent |-> d.sent,
                          triggers |-> TriggersOf(d), sends |-> SendsOf(d),
                          offsets |-> HeaderOffsets(records, read_size, 0)]
           /\ event_q' = event_q \o d.sent
           /\ trigger_q' = trigger_q + TriggersOf(d)
    /\ UNCHANGED <<fs_pc, fs_result, trigger_tx, notFsRun>>

\* The same, the records read drawn from `reads`, whole.
FsReadOf(reads) ==
    \E records \in reads : \E read_size \in WholeRead(records) :
        FsReadSized(records, read_size)

\* The buffers of the reads that may be short: records of the watched
\* directory, with and without a name.
DecodeReads == SeqsUpTo([wd : {1}, mask : {IN_OPEN}, len : {0, EVENT_SIZE}], MaxRecords)

\* The same for a descriptor whose read may return any count.
FsReadAny ==
    \E records \in DecodeReads : \E read_size \in ShortReads(records) :
        FsReadSized(records, read_size)

FsRead == FsReadOf(Reads)

\* A read that fails (lines 240-243): the loop breaks, the thread ends and
\* drops the watcher with its senders.
FsReadFails ==
    /\ fs_pc = "reading"
    /\ fs_pc' = "ended"
    /\ trigger_tx' = FALSE
    /\ fs_last' = NoRead
    /\ UNCHANGED <<fs_result, event_q, trigger_q, notFsRun>>

\* Runtime::event_loop takes one verbose event (rspy.rs lines 242-247).
EventLoopRecv ==
    /\ event_q # <<>>
    /\ event_q' = Tail(event_q)
    /\ UNCHANGED <<fs_pc, fs_result, fs_last, chanVars, notFsRun>>

\* The receiving end of the trigger channel takes one trigger
\* (scanner.rs line 127 or 132).
TriggerTaken ==
    /\ trigger_q > 0
    /\ trigger_q' = trigger_q - 1
    /\ UNCHANGED <<trigger_tx, fsRunVars, notFsRun>>

FsNext == FsStart \/ FsRead \/ FsReadFails \/ EventLoopRecv \/ TriggerTaken

DecodeNext == FsStart \/ FsReadAny \/ FsReadFails \/ EventLoopRecv \/ TriggerTaken

(***************************************************************************)
(* Runtime::run up to the start of the threads (rspy.rs lines 164-232)     *)
(***************************************************************************)
CfgInit ==
    /\ config \in Configs
    /\ run_pc = "parse"

FsSetupInit ==
    /\ fs_watcher = Absent
    /\ wd_to_path = {}
    /\ watch_requests = <<>>
    /\ setup_log = <<>>
    /\ setup_answers = <<>>
    /\ setup_result = "none"

ScannerAbsent == scanner = Absent

notRun == <<procVars, busVars, fsRunVars, chanVars, schedVars, loopVars>>

\* Config::new: parse, validate, exit(1) on a configuration error.
ConfigNew ==
    /\ run_pc = "parse"
    /\ run_pc' = IF validate(config) = "ok" THEN "watcher" ELSE "exit1"
    /\ UNCHANGED <<config, fsSetupVars, scannerVars, notRun>>

\* FsWatcher::new and setup_watches (rspy.rs lines 182-212): skipped in
\* dbus-only mode; inotify_init1 may fail, which ends run with the error; an
\* Err of setup_watches is logged and the process exits (lines 207-212).
WatcherSetup ==
    /\ run_pc = "watcher"
    /\ IF config.dbus_only
       THEN /\ run_pc' = "scanner"
            /\ UNCHANGED fsSetupVars
       ELSE \E inited \in BOOLEAN :
              IF ~inited
              THEN /\ run_pc' = "exit1"
                   /\ UNCHANGED fsSetupVars
              ELSE LET rec == get_recursive_watch_dirs(config)
                       dir == get_direct_watch_dirs(config)
                   IN  \E answers \in [SeqToSet(SetupPaths(rec, dir)) -> Registrations] :
                         LET w == setup_watches(rec, dir, config.low_resource,
                                                config.debug, answers)
                         IN  /\ fs_watcher' = [recursive_directories |-> rec,
                                               direct_directories |-> dir,
                                               print_events |-> config.print_filesystem_events,
                                               low_resource |-> config.low_resource,
                                               debug |-> config.debug]
                             /\ wd_to_path' = w.wd_to_path
                             /\ watch_requests' = w.requests
                             /\ setup_log' = w.log
                             /\ setup_answers' = answers
                             /\ setup_result' = w.result
                             /\ run_pc' = IF w.result = "ok" THEN "scanner" ELSE "exit1"
    /\ UNCHANGED <<config, scannerVars, notRun>>

\* Scanner::new (scanner.rs lines 24-46, rspy.rs lines 214-220).
ScannerNew ==
    /\ run_pc = "scanner"
    /\ scanner' = [interval |-> scan_interval(config),
                   dbus_interval |-> dbus_interval(config),
                   dbus_only |-> config.dbus_only,
                   dbus_scanner |-> config.dbus_only \/ config.dbus]
    /\ run_pc' = "ready"
    /\ UNCHANGED <<config, fsSetupVars, notRun>>

RunNext == ConfigNew \/ WatcherSetup \/ ScannerNew

(***************************************************************************)
(* Scanner::start: the scheduling thread (scanner.rs lines 48-178)         *)
(*                                                                         *)
(* Time is kept by clocks that Tick advances together: since_last_scan is  *)
(* Instant::now() - last_process_scan, waited the time spent in the        *)
(* current recv_timeout.  A step of the thread takes no time; the scan and *)
(* the blocking receive do.  Time does not pass while the thread has a     *)
(* step to take.                                                           *)
(***************************************************************************)
Min(a, b) == IF a <= b THEN a ELSE b

Sat(t) == Min(t, ClockCap)

\* Duration::from_secs(SCANNER_MAX_TIMEOUT_SECS), in ms
MaxTimeoutMs == SCANNER_MAX_TIMEOUT_SECS * 1000

\* min_between_scans (lines 70-72), in ms
min_between_scans(interval) ==
    IF interval # None THEN interval[1] ELSE DEFAULT_SCAN_INTERVAL_MS

DeadlinePassed_Default(interval, since) == since >= min_between_scans(interval)

\* now >= next_scan_time, for next_process_scan = last_process_scan + interval
\* (lines 90-92, 108-109)
DeadlinePassed(interval, since) == interval # None /\ since >= interval[1]

\* timeout (lines 94-106), in ms
TimeoutFor_Ceiling(interval, since) == MaxTimeoutMs

TimeoutFor(interval, since) ==
    IF interval # None
    THEN IF since >= interval[1] THEN 0
         ELSE Min(interval[1] - since, MaxTimeoutMs)
    ELSE MaxTimeoutMs

\* time_since_last_process >= min_between_scans (line 129)
PassesDebounce_Always(elapsed, interval) == TRUE

PassesDebounce(elapsed, interval) == elapsed >= min_between_scans(interval)

\* while trigger_rx.try_recv().is_ok() (lines 131-134): what the drain
\* leaves of the triggers pending after the one received.
Drained_Nothing(pending) == pending

Drained(pending) == 0

\* The process tables the scans of the scheduler find.
SchedSnapshots == {<<>>, <<1>>}

\* A Scanner as Scanner::new makes it (lines 24-46): is_active is false.
SchedInit ==
    /\ scanner \in [interval : {None, Some(DEFAULT_SCAN_INTERVAL_MS)},
                    dbus_interval : {Some(DBUS_DEFAULT_SLEEP_MS)},
                    dbus_only : BOOLEAN,
                    dbus_scanner : {FALSE}]
    /\ is_active = FALSE
    /\ sched_pc = "new"
    /\ since_last_scan = 0
    /\ time_since_last_process = 0
    /\ timeout = 0
    /\ waited = 0
    /\ scan_time = 0
    /\ slept = 0
    /\ h_since_scan = 0
    /\ scan_started_at = 0
    /\ h_scanned = FALSE
    /\ h_arrived = 0
    /\ h_first_at = 0
    /\ h_last_at = 0
    /\ h_dropped = 0
    /\ h_spaced = TRUE
    /\ h_last = "none"

\* No Scanner yet.
SchedIdle ==
    /\ is_active = FALSE
    /\ sched_pc = "new"
    /\ since_last_scan = 0
    /\ time_since_last_process = 0
    /\ timeout = 0
    /\ waited = 0
    /\ scan_time = 0
    /\ slept = 0
    /\ h_since_scan = 0
    /\ scan_started_at = 0
    /\ h_track = FALSE
    /\ h_scanned = FALSE
    /\ h_arrived = 0
    /\ h_first_at = 0
    /\ h_last_at = 0
    /\ h_dropped = 0
    /\ h_spaced = TRUE
    /\ h_last = "none"

notSched == <<busVars, cfgVars, fsSetupVars, fsRunVars, scannerVars, loopVars>>

arrivalHist == <<h_arrived, h_first_at, h_last_at, h_dropped, h_spaced>>

\* if self.dbus_only { return; } (lines 59-61): whether start goes on to
\* spawn the scheduling thread.
SpawnsScheduler_Always(sc) == TRUE

SpawnsScheduler(sc) == ~sc.dbus_only

\* start (lines 48-89): set_active(true); in dbus-only mode return; else
\* spawn the thread, whose first statement stamps last_process_scan.
SchedStart ==
    /\ sched_pc = "new"
    /\ scanner # Absent
    /\ is_active' = TRUE
    /\ sched_pc' = IF SpawnsScheduler(scanner) THEN "top" ELSE "none"
    /\ since_last_scan' = 0
    /\ h_since_scan' = 0
    /\ UNCHANGED <<time_since_last_process, timeout, waited, scan_time, slept,
                   scan_started_at, h_track, h_scanned, arrivalHist, h_last, procVars,
                   chanVars,
                   notSched>>

\* is_active.load(Ordering::Relaxed) (line 83)
LoadActive_Always == TRUE

LoadActive == is_active

\* The head of the loop while active (lines 88-125): read the clock, then
\* either the periodic deadline has passed and the interval scan starts, or
\* recv_timeout is entered with the timeout computed.
SchedLoopTop ==
    /\ sched_pc = "top"
    /\ LoadActive
    /\ IF DeadlinePassed(scanner.interval, since_last_scan)
       THEN /\ sched_pc' = "scan_interval"
            /\ scan_started_at' = h_since_scan
            /\ h_last' = "interval"
            /\ h_scanned' = (h_track \/ h_scanned)
            /\ UNCHANGED <<time_since_last_process, timeout>>
       ELSE /\ sched_pc' = "recv"
            /\ time_since_last_process' = since_last_scan
            /\ timeout' = TimeoutFor(scanner.interval, since_last_scan)
            /\ UNCHANGED <<scan_started_at, h_last, h_scanned>>
    /\ UNCHANGED <<is_active, since_last_scan, waited, scan_time, slept, h_since_scan,
                   h_track, arrivalHist, procVars, chanVars, notSched>>

\* The locals of an iteration go out of scope when it ends.
EndIteration ==
    /\ time_since_last_process' = 0
    /\ timeout' = 0
    /\ waited' = 0

\* recv_timeout returns Ok(()) (lines 127-166): past the debounce floor the
\* pending triggers are drained and the triggered scan starts; otherwise the
\* trigger is ignored.
SchedRecv ==
    /\ sched_pc = "recv"
    /\ trigger_q > 0
    /\ IF PassesDebounce(time_since_last_process, scanner.interval)
       THEN /\ trigger_q' = Drained(trigger_q - 1)
            /\ sched_pc' = "scan_trigger"
            /\ scan_started_at' = h_since_scan
            /\ h_last' = IF trigger_q > 1 THEN "drained" ELSE "triggered"
            /\ h_scanned' = (h_track \/ h_scanned)
            /\ UNCHANGED h_dropped
       ELSE /\ trigger_q' = trigger_q - 1
            /\ sched_pc' = "top"
            /\ h_dropped' = IF h_track THEN Cap2(h_dropped + 1) ELSE h_dropped
            /\ h_last' = "ignored"
            /\ UNCHANGED <<scan_started_at, h_scanned>>
    /\ EndIteration
    /\ UNCHANGED <<is_active, since_last_scan, scan_time, slept, h_since_scan, h_track,
                   h_arrived, h_first_at, h_last_at, h_spaced, trigger_tx, procVars,
                   notSched>>

\* recv_timeout returns Err(Timeout) (lines 167-169).
SchedTimeout ==
    /\ sched_pc = "recv"
    /\ trigger_q = 0
    /\ trigger_tx
    /\ waited >= timeout
    /\ sched_pc' = "top"
    /\ h_last' = "timeout"
    /\ EndIteration
    /\ UNCHANGED <<is_active, since_last_scan, scan_time, slept, h_since_scan,
                   scan_started_at, h_track, h_scanned, arrivalHist, procVars, chanVars,
                   notSched>>

\* recv_timeout returns Err(Disconnected) (lines 170-173): the loop ends.
SchedDisconnected_Continue ==
    /\ sched_pc = "recv"
    /\ trigger_q = 0
    /\ ~trigger_tx
    /\ sched_pc' = "top"
    /\ h_last' = "disconnected"
    /\ EndIteration
    /\ UNCHANGED <<is_active, since_last_scan, scan_time, slept, h_since_scan,
                   scan_started_at, h_track, h_scanned, arrivalHist, procVars, chanVars,
                   notSched>>

SchedDisconnected ==
    /\ sched_pc = "recv"
    /\ trigger_q = 0
    /\ ~trigger_tx
    /\ sched_pc' = "exited"
    /\ h_last' = "disconnected"
    /\ EndIteration
    /\ UNCHANGED <<is_active, since_last_scan, scan_time, slept, h_since_scan,
                   scan_started_at, h_track, h_scanned, arrivalHist, procVars, chanVars,
                   notSched>>

\* scan_processes() returns, Ok or Err, and last_process_scan is stamped
\* (lines 112-124 and 148-159).
SchedScanEnd ==
    /\ sched_pc \in {"scan_interval", "scan_trigger"}
    /\ \E enumerated \in BOOLEAN :
          IF enumerated
          THEN \E processes \in SchedSnapshots :
                 \E lookup \in [SeqToSet(processes) -> Lookups] :
                    scan_processes(TRUE, processes, lookup)
          ELSE scan_processes(FALSE, <<>>, <<>>)
    /\ since_last_scan' = 0
    /\ sched_pc' = "top"
    /\ scan_time' = 0
    /\ h_since_scan' = 0
    /\ scan_started_at' = 0
    /\ h_arrived' = IF h_track THEN Cap2(trigger_q) ELSE h_arrived
    /\ h_first_at' = 0
    /\ h_last_at' = 0
    /\ h_dropped' = 0
    /\ h_spaced' = (~h_track \/ trigger_q = 0)
    /\ UNCHANGED <<is_active, time_since_last_process, timeout, waited, slept, h_track,
                   h_scanned,
                   h_last, procHist, chanVars, notSched>>

SchedScanning == sched_pc \in {"scan_interval", "scan_trigger"}

\* inactive_sleep_duration (lines 74-80), in ms
inactive_sleep_duration(proc_int, dbus_int) ==
    IF proc_int # None /\ dbus_int # None THEN Min(proc_int[1], dbus_int[1])
    ELSE IF proc_int # None THEN proc_int[1]
    ELSE IF dbus_int # None THEN dbus_int[1]
    ELSE DEFAULT_SCAN_INTERVAL_MS

\* The thread is blocked: in recv_timeout with nothing to return yet, or in
\* a scan that may take longer.
SchedBlocked ==
    \/ sched_pc = "recv" /\ trigger_q = 0 /\ trigger_tx /\ waited < timeout
    \/ sched_pc \in {"scan_interval", "scan_trigger"} /\ scan_time < MaxScanMs
    \/ sched_pc = "sleep" /\ slept < inactive_sleep_duration(scanner.interval,
                                                             scanner.dbus_interval)

\* TickMs of time pass.
Tick ==
    /\ SchedBlocked
    /\ since_last_scan' = Sat(since_last_scan + TickMs)
    /\ h_since_scan' = Sat(h_since_scan + TickMs)
    /\ waited' = IF sched_pc = "recv" THEN waited + TickMs ELSE waited
    /\ scan_time' = IF SchedScanning THEN scan_time + TickMs ELSE scan_time
    /\ slept' = IF sched_pc = "sleep" THEN slept + TickMs ELSE slept
    /\ UNCHANGED <<is_active, sched_pc, time_since_last_process, timeout, scan_started_at,
                   h_track, h_scanned, arrivalHist, h_last, procVars, chanVars, notSched>>

\* The watcher thread sends one trigger (filesystem.rs lines 229-231).
TriggerSend ==
    /\ sched_pc \in {"top", "recv", "scan_interval", "scan_trigger"}
    /\ trigger_tx
    /\ trigger_q < MaxQueue
    /\ trigger_q' = trigger_q + 1
    /\ IF h_track
       THEN /\ h_arrived' = Cap2(h_arrived + 1)
            /\ h_first_at' = IF h_arrived = 0 THEN h_since_scan ELSE h_first_at
            /\ h_last_at' = h_since_scan
            /\ h_spaced' = /\ h_spaced
                           /\ sched_pc \in {"top", "recv"}
                           /\ h_since_scan > min_between_scans(scanner.interval)
                           /\ h_arrived > 0 =>
                                h_since_scan - h_last_at > min_between_scans(scanner.interval)
            /\ UNCHANGED h_dropped
       ELSE UNCHANGED arrivalHist
    /\ UNCHANGED <<trigger_tx, schedCode, h_since_scan, scan_started_at, h_track,
                   h_scanned, h_last,
                   procVars, notSched>>

\* The watcher thread ends and drops its senders (filesystem.rs lines 240-243).
SendersDropped ==
    /\ sched_pc \in {"top", "recv", "scan_interval", "scan_trigger"}
    /\ trigger_tx
    /\ trigger_tx' = FALSE
    /\ UNCHANGED <<trigger_q, schedVars, procVars, notSched>>

\* set_active(active) (lines 180-182), called by the owner of the Scanner.
set_active(active) ==
    /\ scanner # Absent
    /\ is_active' = active
    /\ UNCHANGED <<sched_pc, since_last_scan, time_since_last_process, timeout, waited,
                   scan_time, slept, schedHist, procVars, chanVars, notSched>>

SetActive == \E active \in BOOLEAN : set_active(active)

\* The head of the loop while inactive (lines 83-86): thread::sleep starts.
SchedInactive ==
    /\ sched_pc = "top"
    /\ ~LoadActive
    /\ sched_pc' = "sleep"
    /\ slept' = 0
    /\ h_last' = "inactive"
    /\ UNCHANGED <<is_active, since_last_scan, time_since_last_process, timeout, waited,
                   scan_time, h_since_scan, scan_started_at, h_track, h_scanned, arrivalHist,
                   procVars, chanVars, notSched>>

\* thread::sleep(inactive_sleep_duration) ends (line 84): continue.
SchedWake ==
    /\ sched_pc = "sleep"
    /\ slept >= inactive_sleep_duration(scanner.interval, scanner.dbus_interval)
    /\ sched_pc' = "top"
    /\ slept' = 0
    /\ UNCHANGED <<is_active, since_last_scan, time_since_last_process, timeout, waited,
                   scan_time, schedHist, procVars, chanVars, notSched>>

SchedNext ==
    \/ SchedStart \/ SchedLoopTop \/ SchedRecv \/ SchedTimeout \/ SchedDisconnected
    \/ SchedScanEnd \/ Tick \/ TriggerSend \/ SendersDropped

(***************************************************************************)
(* The whole program: Runtime::run (rspy.rs lines 164-233) with the threads *)
(* it starts: the bus scanner, the scheduler, the watcher, and its own     *)
(* event loop.                                                             *)
(***************************************************************************)
\* The command lines of the whole-program model: low-resource mode with
\* verbose events, with and without the bus scanner.
SysConfigs ==
    [print_filesystem_events : {TRUE},
     recursive_watch_dirs : {<<>>},
     direct_watch_dirs : {<<>>},
     low_resource : {TRUE},
     scan_interval_ms : {None},
     dbus_interval_ms : {None},
     debug : {FALSE},
     dbus : BOOLEAN,
     dbus_only : BOOLEAN,
     no_interval : {FALSE}]

\* The reads and the bus censuses of the whole-program model.
SysReads == {<<>>, <<[wd |-> 1, mask |-> IN_OPEN, len |-> 0]>>}

SysCensuses == {<<>>, <<1>>}

\* No bus thread yet.
BusUnspawned ==
    /\ printed_processes = {}
    /\ bus_pc = "unspawned"
    /\ bus_result = "none"
    /\ bus_events = <<>>
    /\ bus_reports = [p \in BusPIDs |-> 0]
    /\ bus_phase = [p \in BusPIDs |-> 0]

SysInit ==
    /\ ProcInit /\ BusUnspawned /\ FsSetupInit /\ FsRunIdle /\ ChanInit /\ LoopIdle
    /\ ScannerAbsent /\ SchedIdle
    /\ config \in SysConfigs
    /\ run_pc = "parse"

\* scanner.set_active(true); scanner.start() (rspy.rs lines 222-223,
\* scanner.rs lines 48-70): the bus thread is spawned when there is a
\* DBusScanner, the scheduling thread unless in dbus-only mode.
RunStartScanner ==
    /\ run_pc = "ready"
    /\ is_active' = TRUE
    /\ bus_pc' = IF scanner.dbus_scanner THEN "connect" ELSE bus_pc
    /\ sched_pc' = IF SpawnsScheduler(scanner) THEN "top" ELSE "none"
    /\ since_last_scan' = 0
    /\ h_since_scan' = 0
    /\ run_pc' = "start_watching"
    /\ UNCHANGED <<time_since_last_process, timeout, waited, scan_time, slept,
                   scan_started_at, h_track, h_scanned, arrivalHist, h_last, procVars,
                   chanVars,
                   printed_processes, bus_result, bus_events, busHist, config,
                   fsSetupVars, fsRunVars, scannerVars, loopVars>>

\* watcher.start_watching() when there is a watcher (rspy.rs lines 225-230),
\* then event_loop.
RunStartWatching ==
    /\ run_pc = "start_watching"
    /\ IF fs_watcher # Absent
       THEN fs_pc' = "reading" /\ fs_result' = "ok"
       ELSE UNCHANGED <<fs_pc, fs_result>>
    /\ run_pc' = "event_loop"
    /\ UNCHANGED <<fs_last, event_q, config, procVars, busVars, fsSetupVars, chanVars,
                   scannerVars, schedVars, loopVars>>

SysFsRead == FsReadOf(SysReads)

SysBusPoll == BusPollOf(SysCensuses)

SysEventLoopRecv == run_pc = "event_loop" /\ EventLoopRecv

SysNext ==
    \/ ConfigNew \/ WatcherSetup \/ ScannerNew \/ RunStartScanner \/ RunStartWatching
    \/ SchedLoopTop \/ SchedRecv \/ SchedTimeout \/ SchedDisconnected \/ SchedScanEnd
    \/ Tick
    \/ SysFsRead \/ FsReadFails \/ SysEventLoopRecv
    \/ BusConnect \/ SysBusPoll \/ BusPollFails \/ BusWake

(***************************************************************************)
(* Runtime::event_loop and the signal handler (rspy.rs lines 154-162,      *)
(* 235-260)                                                                *)
(***************************************************************************)
notLoop == <<procVars, busVars, fsSetupVars, fs_pc, fs_result, fs_last, chanVars,
             scannerVars, schedVars, run_pc>>

\* The verbose lines the watcher thread sends.
LoopEvents == {[events |-> <<"OPEN">>, path |-> "/etc"],
               [events |-> <<"MODIFY", "CREATE">>, path |-> "/etc"]}

\* event_loop is entered with the flag true and the channel open.
LoopStarted ==
    /\ running = TRUE
    /\ loop_pc = "head"
    /\ event_tx = TRUE
    /\ loop_out = "none"
    /\ h_after = 0

\* The handler ctrlc::set_handler installed (lines 156-159):
\* running.store(false).
SignalHandler ==
    /\ running' = FALSE
    /\ h_after' = IF running THEN 0 ELSE h_after
    /\ UNCHANGED <<loop_pc, event_tx, loop_out, event_q, config, notLoop>>

\* if !self.running.load(..) { ...; break; } (lines 237-240), else on to
\* recv_timeout.
LoopHead_NoCheck ==
    /\ loop_pc = "head"
    /\ loop_pc' = "recv"
    /\ UNCHANGED <<running, event_tx, loop_out, h_after, event_q, config, notLoop>>

LoopHead ==
    /\ loop_pc = "head"
    /\ IF ~running
       THEN loop_pc' = "done" /\ loop_out' = "shutting down"
       ELSE loop_pc' = "recv" /\ UNCHANGED loop_out
    /\ UNCHANGED <<running, event_tx, h_after, event_q, config, notLoop>>

\* recv_timeout returns Ok(event) (lines 243-247): printed when
\* print_filesystem_events is set.
LoopRecv ==
    /\ loop_pc = "recv"
    /\ event_q # <<>>
    /\ event_q' = Tail(event_q)
    /\ loop_out' = IF config.print_filesystem_events THEN "fs" ELSE loop_out
    /\ h_after' = IF ~running THEN h_after + 1 ELSE h_after
    /\ loop_pc' = "head"
    /\ UNCHANGED <<running, event_tx, config, notLoop>>

\* recv_timeout returns Err(Timeout) after 100 ms without an event
\* (lines 248-250).
LoopTimeout ==
    /\ loop_pc = "recv"
    /\ event_q = <<>>
    /\ event_tx
    /\ loop_pc' = "head"
    /\ UNCHANGED <<running, event_tx, loop_out, h_after, event_q, config, notLoop>>

\* recv_timeout returns Err(Disconnected) (lines 251-254): the channel is
\* empty and no sender is left.
LoopDisconnected ==
    /\ loop_pc = "recv"
    /\ event_q = <<>>
    /\ ~event_tx
    /\ loop_pc' = "done"
    /\ loop_out' = "disconnected"
    /\ UNCHANGED <<running, event_tx, h_after, event_q, config, notLoop>>

\* A sender of the verbose-event channel sends a line (filesystem.rs line 211).
EventSend ==
    /\ event_tx
    /\ loop_pc # "done"
    /\ Len(event_q) < MaxQueue
    /\ \E e \in LoopEvents : event_q' = Append(event_q, e)
    /\ UNCHANGED <<loopVars, config, notLoop>>

\* The last Sender<String> is dropped.  Runtime::run keeps its own tx alive
\* while event_loop runs (line 179: only tx.clone() is given away), so this
\* happens only to an event_loop whose caller gave every sender away.
EventSendersDropped ==
    /\ event_tx
    /\ loop_pc # "done"
    /\ event_tx' = FALSE
    /\ UNCHANGED <<running, loop_pc, loop_out, h_after, event_q, config, notLoop>>

LoopNext ==
    \/ SignalHandler \/ LoopHead \/ LoopRecv \/ LoopTimeout \/ LoopDisconnected
    \/ EventSend \/ EventSendersDropped

(***************************************************************************)
(* Specifications                                                          *)
(***************************************************************************)
\* A component that a specification does not run: no command line parsed,
\* no watcher, no scanner.
CfgIdle ==
    /\ config = Absent
    /\ run_pc = "parse"

InitAll ==
    /\ ProcInit /\ BusInit /\ CfgIdle /\ FsSetupInit /\ FsRunIdle /\ ChanInit /\ LoopIdle
    /\ ScannerAbsent /\ SchedIdle

\* Runtime::run from the parsed command line to the constructed Scanner.
InitRun ==
    /\ ProcInit /\ BusInit /\ CfgInit /\ FsSetupInit /\ FsRunIdle /\ ChanInit /\ LoopIdle
    /\ ScannerAbsent /\ SchedIdle

SpecRun == InitRun /\ [][RunNext]_vars

\* The watcher thread, from a watcher that is set up.
InitFs ==
    /\ ProcInit /\ BusInit /\ CfgIdle /\ FsStartedInit /\ ChanInit /\ LoopIdle /\ ScannerAbsent
    /\ SchedIdle

SpecFs == InitFs /\ [][FsNext]_vars

\* The same watcher thread on a descriptor whose reads may return any count.
SpecDecode == InitFs /\ [][DecodeNext]_vars

\* The scheduling thread, from a constructed Scanner; the watcher is the
\* sender of the trigger channel.
InitSched ==
    /\ ProcInit /\ BusInit /\ CfgIdle /\ FsSetupInit /\ FsRunIdle /\ ChanInit /\ LoopIdle
    /\ SchedInit /\ h_track = FALSE

SpecSched == InitSched /\ [][SchedNext]_vars

\* The same under the scheduling the operating system gives: the thread
\* takes the step it has, a scan returns, and time passes.
SchedFairness ==
    /\ WF_vars(SchedLoopTop)
    /\ WF_vars(SchedRecv)
    /\ WF_vars(SchedTimeout)
    /\ WF_vars(SchedDisconnected)
    /\ WF_vars(SchedScanEnd)
    /\ WF_vars(Tick)

SpecSchedFair == InitSched /\ [][SchedNext]_vars /\ SchedFairness

\* The same for the intervals --scan-interval accepts, zero among them.
InitSchedAnyInterval ==
    /\ ProcInit /\ BusInit /\ CfgIdle /\ FsSetupInit /\ FsRunIdle /\ ChanInit /\ LoopIdle
    /\ SchedIdle
    /\ scanner \in [interval : {None, Some(0), Some(DEFAULT_SCAN_INTERVAL_MS)},
                    dbus_interval : {Some(DBUS_DEFAULT_SLEEP_MS)},
                    dbus_only : {FALSE},
                    dbus_scanner : {FALSE}]

SpecSchedAnyInterval == InitSchedAnyInterval /\ [][SchedNext]_vars /\ SchedFairness

\* The Scanner with its owner calling set_active at any time.
SchedApiNext == SchedNext \/ SetActive \/ SchedInactive \/ SchedWake

SpecSchedApi ==
    InitSched /\ [][SchedApiNext]_vars /\ SchedFairness /\ WF_vars(SchedWake)
              /\ WF_vars(SchedInactive)

\* The whole program.
SpecSys == SysInit /\ [][SysNext]_vars

\* The same, with the trigger arrivals recorded.
InitSchedArrivals ==
    /\ ProcInit /\ BusInit /\ CfgIdle /\ FsSetupInit /\ FsRunIdle /\ ChanInit /\ LoopIdle
    /\ SchedInit /\ h_track = TRUE

SpecSchedArrivals == InitSchedArrivals /\ [][SchedNext]_vars

SpecProc == InitAll /\ [][ProcNext]_vars

\* event_loop with the signal handler and the senders of its channel; the
\* controlling thread takes the step it has.
InitLoop ==
    /\ ProcInit /\ BusInit /\ FsSetupInit /\ ChanInit /\ ScannerAbsent /\ SchedIdle
    /\ fs_pc = "unstarted" /\ fs_result = "none" /\ fs_last = NoRead /\ event_q = <<>>
    /\ config \in [print_filesystem_events : BOOLEAN]
    /\ run_pc = "event_loop"
    /\ LoopStarted

LoopFairness ==
    /\ WF_vars(LoopHead)
    /\ WF_vars(LoopRecv)
    /\ WF_vars(LoopTimeout)
    /\ WF_vars(LoopDisconnected)

SpecLoop == InitLoop /\ [][LoopNext]_vars /\ LoopFairness

SpecBus == InitAll /\ [][BusNext]_vars

(***************************************************************************)
(* Claims about ProcessScanner                                             *)
(***************************************************************************)
\* C1 as stated: after every scan, every PID of the snapshot has been
\* reported exactly once in its current contiguous presence interval.
C1_ExactlyOncePerInterval ==
    \A p \in current_pids : run_reports[p] = 1

\* C1, amended: a PID is reported at most once per contiguous presence
\* interval, exactly once if a lookup of it succeeded at some scan of the
\* interval and not at all otherwise; a PID absent from the snapshot has
\* no report pending, so its re-appearance is reported again.
C1_OncePerIntervalIfResolved ==
    \A p \in PIDs :
        run_reports[p] = IF p \in current_pids /\ run_lookup_ok[p] THEN 1 ELSE 0

\* A PID in its second presence interval, reported in it.
C1_Witness ==
    \E p \in current_pids : run_returns[p] = 2 /\ run_reports[p] = 1

\* C9: a new PID whose lookup failed is not in seen after the scan, has no
\* report and is not counted; a scan that finds it again treats it as new;
\* a new PID with only the cmdline unreadable is reported with the
\* placeholder and kept in seen.
C9_LookupFailureRetried ==
    /\ \A p \in last_failed :
          /\ p \notin seen_pids
          /\ p \notin Reported(scan_events)
    /\ scan_result.ok =>
          scan_result.new_count = Len(new_pids) - Cardinality(last_failed)
    /\ \A p \in prev_failed :
          (scan_result.ok /\ p \in current_pids) => p \in SeqToSet(new_pids)
    /\ \A p \in last_nocmdline :
          /\ p \in seen_pids
          /\ scan_result.ok => \E i \in 1..Len(scan_events) :
                scan_events[i] = [uid |-> "ruid", pid |-> p, cmd |-> UNKNOWN_COMMAND]

\* A PID whose lookup failed in one scan and that the next scan found again,
\* with only the cmdline unreadable, and reported.
C9_Witness ==
    \E p \in prev_failed :
        /\ p \in last_nocmdline
        /\ p \in seen_pids
        /\ scan_result.new_count >= 1

(***************************************************************************)
(* Claims about DBusScanner                                                *)
(***************************************************************************)
\* C6: no PID is announced twice in one connection's lifetime: a PID has
\* exactly one announcement from the first census that held it, it stays in
\* printed_processes whatever later censuses hold, and a PID back after an
\* absence is not announced again.
C6_NeverAnnouncedTwice ==
    \A p \in BusPIDs :
        /\ bus_reports[p] = IF bus_phase[p] = 0 THEN 0 ELSE 1
        /\ p \in printed_processes <=> bus_phase[p] # 0

\* A PID that left the census and is back in it, still announced once.
C6_Witness ==
    \E p \in BusPIDs : bus_phase[p] = 3 /\ bus_reports[p] = 1 /\ bus_pc = "sleep"

(***************************************************************************)
(* Claims about Config and the watch setup                                 *)
(***************************************************************************)
WatchedPaths == {watch_requests[i].path : i \in 1..Len(watch_requests)}

C10_LowResourceHelpText ==
    (/\ config # Absent
     /\ config.low_resource
     /\ fs_watcher # Absent
     /\ run_pc = "ready") =>
        /\ WatchedPaths = {"/etc", "/etc/ld.so.cache"}
        /\ scanner.interval = None

(***************************************************************************)
(* Claims about the read loop                                              *)
(***************************************************************************)
\* C5: a read of K >= 1 concatenated records decodes exactly those K records
\* and sends exactly one trigger, with verbose output on or off; a read of
\* zero bytes decodes nothing and sends no trigger.
C5_OneTriggerPerRead ==
    /\ fs_last.decoded = fs_last.records
    /\ fs_last.triggers = IF Len(fs_last.records) >= 1 THEN 1 ELSE 0
    /\ fs_last.read_size = 0 => fs_last.decoded = <<>> /\ fs_last.triggers = 0

\* A read of two records, one with a name, with verbose output on: both
\* decoded, one trigger pending.
C5_Witness ==
    /\ Len(fs_last.records) = 2
    /\ fs_last.records[1].len = 16
    /\ fs_watcher.print_events
    /\ Len(fs_last.decoded) = 2
    /\ fs_last.triggers = 1
    /\ trigger_q = 1


\* The scheduler runs its loop: the thread is neither unstarted nor ended.
SchedWaiting == sched_pc \in {"top", "recv"}

Floor == min_between_scans(scanner.interval)

\* C2: N >= 1 triggers that all arrive within one debounce-floor window, the
\* first of them at least a floor after the last scan, get exactly one scan:
\* once the window is over and they are all received a scan has executed for
\* them, and no triggered scan starts within a floor of the scan before it.
C2_BurstScannedOnce ==
    scanner # Absent =>
      /\ ~ /\ sched_pc = "recv"
           /\ trigger_q = 0
           /\ h_arrived >= 1
           /\ h_first_at >= Floor
           /\ h_last_at - h_first_at < Floor
           /\ h_since_scan >= h_first_at + Floor
      /\ sched_pc = "scan_trigger" => scan_started_at >= Floor

\* C3: each trigger that arrives more than a debounce floor after the
\* arrival before it and after the last scan gets a scan of its own: none of
\* them is ignored.
C3_SpacedTriggersAllScanned ==
    (h_track /\ h_spaced) => h_dropped = 0

\* C4: with a configured interval the periodic scan is never starved by
\* triggers: the thread never enters recv_timeout with the deadline passed at
\* the head of the iteration, it never waits past the deadline, so the
\* interval scan starts at the deadline whatever triggers arrive, and the
\* timestamp the deadline is counted from is that of the last scan, which
\* ignored triggers do not move.
C4_PeriodicNeverStarved ==
    (scanner # Absent /\ scanner.interval # None) =>
      /\ sched_pc = "recv" =>
           /\ ~DeadlinePassed(scanner.interval, time_since_last_process)
           /\ waited <= timeout
      /\ SchedWaiting => h_since_scan <= scanner.interval[1]
      /\ sched_pc = "scan_interval" => scan_started_at = scanner.interval[1]
      /\ since_last_scan = h_since_scan

\* A periodic scan starts at its deadline while triggers are pending.
C4_Witness ==
    /\ scanner # Absent
    /\ scanner.interval # None
    /\ sched_pc = "scan_interval"
    /\ scan_started_at = scanner.interval[1]
    /\ trigger_q > 0

\* C7: interval 100 ms, so floor 100 ms; a single trigger sent 10 ms after
\* the last scan is ignored, no scan starts for it, and the next scan is the
\* periodic one, 100 ms after the last scan.
C7_TriggerInsideFloorDropped ==
    ( /\ h_track
      /\ scanner.interval = Some(100)
      /\ h_arrived = 1
      /\ h_first_at = 10 ) =>
      /\ sched_pc # "scan_trigger"
      /\ trigger_q = 0 => h_dropped = 1
      /\ SchedWaiting => h_since_scan <= 100
      /\ sched_pc = "scan_interval" => scan_started_at = 100

\* The trigger sent at 10 ms was ignored and the periodic scan has started at
\* 100 ms.
C7_Witness ==
    /\ h_track
    /\ scanner.interval = Some(100)
    /\ h_arrived = 1
    /\ h_first_at = 10
    /\ h_dropped = 1
    /\ sched_pc = "scan_interval"
    /\ scan_started_at = 100


\* C12: with no interval the scheduler never starts a periodic scan: every
\* scan it runs was started by the receipt of a trigger, and a timeout of
\* recv_timeout returns to the head of the loop with no scan and with the
\* last-scan timestamp as it was (a full timeout after it, not reset).
C12_NoPeriodicScanWithoutInterval ==
    (scanner # Absent /\ scanner.interval = None) =>
      /\ sched_pc # "scan_interval"
      /\ h_last # "interval"
      /\ SchedScanning => h_last \in {"triggered", "drained"}
      /\ (sched_pc = "top" /\ h_last = "timeout") =>
           /\ since_last_scan = Sat(MaxTimeoutMs)
           /\ since_last_scan = h_since_scan

\* recv_timeout has timed out with no interval configured.
C12_Witness ==
    /\ scanner # Absent
    /\ scanner.interval = None
    /\ sched_pc = "top"
    /\ h_last = "timeout"
    /\ since_last_scan = Sat(MaxTimeoutMs)

\* C14: a trigger-driven scan starts at least one debounce floor after the
\* scan before it finished, so at most one starts per floor interval however
\* many triggers arrive.
C14_FloorBetweenTriggeredScans ==
    sched_pc = "scan_trigger" => scan_started_at >= Floor

\* A triggered scan runs, a floor or more after an earlier scan that found a
\* process.
C14_Witness ==
    /\ sched_pc = "scan_trigger"
    /\ current_pids # {}
    /\ scan_started_at >= Floor

\* C16: a received trigger starts a scan exactly when the time since the
\* last scan, at the moment of the receipt, is at least the debounce floor:
\* a trigger is ignored only inside the floor, and scanned only outside it.
C16_ScanIffFloorElapsedAtReceipt ==
    scanner # Absent =>
      /\ (sched_pc = "top" /\ h_last = "ignored") => h_since_scan < Floor
      /\ (sched_pc = "scan_trigger" /\ scan_time = 0) => scan_started_at >= Floor

\* C17: when a received trigger passes the debounce check every trigger
\* pending in the channel is drained before the scan starts: none is left to
\* start a later scan.
C17_BurstDrained ==
    [][(sched_pc = "recv" /\ sched_pc' = "scan_trigger") => trigger_q' = 0]_vars

\* A triggered scan has started after a drain of more than one trigger.
C17_Witness ==
    /\ sched_pc = "scan_trigger"
    /\ h_last = "drained"
    /\ trigger_q = 0


\* C15: with an interval configured, triggers that arrive between the
\* periodic deadlines can start a scan: if triggers keep being received, a
\* trigger-driven scan eventually starts.
C15_TriggeredScanWithInterval ==
    (scanner.interval # None /\ []<>(sched_pc = "recv" /\ trigger_q > 0))
        => <>(sched_pc = "scan_trigger")

\* What the scheduler does instead: with an interval configured no
\* trigger-driven scan ever starts, every received trigger is ignored.
C15_NoTriggeredScanWithInterval ==
    (scanner # Absent /\ scanner.interval # None) =>
      /\ sched_pc # "scan_trigger"
      /\ h_last \notin {"triggered", "drained"}

\* A trigger received between two periodic deadlines has been ignored.
C15_Witness ==
    /\ scanner # Absent
    /\ scanner.interval # None
    /\ sched_pc = "top"
    /\ h_last = "ignored"
    /\ h_since_scan > 0
    /\ h_since_scan < scanner.interval[1]


C20_ReadFailureReported ==
    fs_pc = "ended" =>
      /\ fs_last = NoRead
      /\ ~trigger_tx
      /\ fs_result = "err"

\* What happens instead: the loop has ended on a failed read, its senders are
\* dropped, and the caller holds the Ok(()) start_watching returned at the spawn.
C20_ReadFailureOnlyLogged ==
    /\ fs_result \in {"none", "ok"}
    /\ fs_pc = "ended" => (fs_last = NoRead /\ ~trigger_tx /\ fs_result = "ok")
    /\ [][fs_pc = "ended" =>
            /\ fs_pc' = "ended"
            /\ trigger_q' <= trigger_q
            /\ Len(event_q') <= Len(event_q)]_vars

\* The watcher thread has ended on a failed read after reads that succeeded.
C20_Witness ==
    /\ fs_pc = "ended"
    /\ fs_result = "ok"
    /\ trigger_q > 0


\* C11: in dbus-only mode no watcher is created or started, no scheduling
\* thread is started, no trigger is sent or received, no filesystem event is
\* forwarded and scan_processes never runs: the state of the ProcessScanner
\* stays as constructed.  Only the bus scanner reports.
C11_BusOnlyDisablesScanning ==
    config.dbus_only =>
      /\ fs_watcher = Absent
      /\ fs_pc = "unstarted"
      /\ fs_result = "none"
      /\ sched_pc \in {"new", "none"}
      /\ h_last = "none"
      /\ trigger_q = 0
      /\ event_q = <<>>
      /\ seen_pids = {} /\ current_pids = {} /\ new_pids = <<>>
      /\ scan_events = <<>>
      /\ scan_result = [ok |-> TRUE, new_count |-> 0]

\* In dbus-only mode run has reached its event loop, no scheduling thread
\* exists, and the bus scanner has reported a process.
C11_Witness ==
    /\ config.dbus_only
    /\ run_pc = "event_loop"
    /\ sched_pc = "none"
    /\ bus_reports[1] > 0
    /\ bus_events # <<>>

\* C13: the seen set of the ProcessScanner and the printed set of the
\* DBusScanner are separate: a scan changes nothing of the bus scanner and a
\* poll nothing of the process scanner; the seen set holds only PIDs of the
\* scanner's own last snapshot and the printed set only PIDs the bus scanner
\* itself announced, so neither source's reports depend on the other's, and a
\* PID both sources see is reported by each.
C13_IdentitySetsIndependent ==
    /\ [](seen_pids \subseteq current_pids)
    /\ [](printed_processes = {p \in BusPIDs : bus_reports[p] > 0})
    /\ [][procCode' # procCode => UNCHANGED <<printed_processes, bus_events,
                                              bus_reports>>]_vars
    /\ [][<<printed_processes, bus_events>>' # <<printed_processes, bus_events>>
            => UNCHANGED procCode]_vars
    /\ [][(1 \in current_pids' /\ 1 \notin current_pids /\ scan_result'.ok) =>
            (1 \in seen_pids' <=> 1 \in Reported(scan_events'))]_vars
    /\ [][(bus_pc = "poll" /\ bus_pc' = "sleep") =>
            Reported(bus_events') = printed_processes' \ printed_processes]_vars

\* PID 1 is in both sets, reported by the scan and by the poll.
C13_Witness ==
    /\ 1 \in seen_pids
    /\ 1 \in Reported(scan_events)
    /\ 1 \in printed_processes
    /\ 1 \in Reported(bus_events)

\* C18: when recv_timeout reports the trigger channel disconnected the
\* scheduling loop ends, and only it: the step changes nothing of the bus
\* scanner or of run; afterwards the thread stays ended, no scan runs and no
\* trigger is received, while the bus loop and the event loop can still take
\* their steps.
C18_DisconnectEndsSchedulerOnly ==
    /\ [](h_last = "disconnected" => sched_pc = "exited")
    /\ [][(sched_pc # "exited" /\ sched_pc' = "exited") =>
            /\ ~trigger_tx /\ trigger_q = 0
            /\ UNCHANGED <<busVars, cfgVars, fsSetupVars, fsRunVars, procCode>>]_vars
    /\ [][sched_pc = "exited" =>
            /\ sched_pc' = "exited"
            /\ trigger_q' = trigger_q
            /\ UNCHANGED procCode]_vars
    /\ [](sched_pc = "exited" =>
            /\ run_pc = "event_loop"
            /\ event_q # <<>> => ENABLED SysEventLoopRecv
            /\ bus_pc = "poll" => ENABLED SysBusPoll
            /\ bus_pc = "sleep" => ENABLED BusWake)

\* The scheduling thread has ended on the disconnected channel while the bus
\* scanner is between polls, having reported, and the event loop has an event
\* to take.
C18_Witness ==
    /\ sched_pc = "exited"
    /\ h_last = "disconnected"
    /\ run_pc = "event_loop"
    /\ event_q # <<>>
    /\ bus_pc = "sleep"
    /\ bus_reports[1] > 0


(***************************************************************************)
(* Claims about the watch setup's failures                                 *)
(***************************************************************************)
\* The paths setup_watches hands to inotify_add_watch: those of SetupPaths
\* whose name is UTF-8.
RECURSIVE Utf8Only(_)
Utf8Only(paths) ==
    IF paths = <<>> THEN <<>>
    ELSE (IF Head(paths) \in HostPaths /\ ~HostTree[Head(paths)].utf8
          THEN <<>> ELSE <<Head(paths)>>) \o Utf8Only(Tail(paths))

SetupAttempts ==
    Utf8Only(SetupPaths(fs_watcher.recursive_directories, fs_watcher.direct_directories))

FailedToMonitor == {setup_log[i].path : i \in {j \in 1..Len(setup_log) :
                                                  setup_log[j].line = "failed to monitor"}}

\* C21: whatever subset of the paths inotify_add_watch refuses, setup_watches
\* asks for every path in turn and returns Ok (run goes on to build the
\* Scanner); afterwards wd_to_path maps exactly the descriptors of the paths
\* the kernel accepted, each to its path; a refusal is logged unless it is
\* permission-denied with debug off.
C21_RegistrationFailuresSkipped ==
    setup_result # "none" =>
        /\ setup_result = "ok"
        /\ run_pc \in {"scanner", "ready"}
        /\ [i \in 1..Len(watch_requests) |-> watch_requests[i].path] = SetupAttempts
        /\ \A i \in 1..Len(watch_requests) :
              watch_requests[i].wd # -1 <=> setup_answers[watch_requests[i].path] = "ok"
        /\ wd_to_path = {<<watch_requests[i].wd, watch_requests[i].path>> :
                            i \in {j \in 1..Len(watch_requests) : watch_requests[j].wd # -1}}
        /\ \A e1, e2 \in wd_to_path : e1[1] = e2[1] => e1 = e2
        /\ FailedToMonitor =
              {p \in SeqToSet(SetupAttempts) :
                  /\ setup_answers[p] # "ok"
                  /\ (fs_watcher.debug \/ setup_answers[p] # "EACCES")}

\* A setup of several paths, debug off: the first is refused for permission
\* (not logged), a later one does not exist (logged), another registers.
C21_Witness ==
    /\ setup_result = "ok"
    /\ run_pc = "ready"
    /\ ~fs_watcher.debug
    /\ Len(watch_requests) >= 3
    /\ setup_answers[watch_requests[1].path] = "EACCES"
    /\ \E i \in 2..Len(watch_requests) : setup_answers[watch_requests[i].path] = "ENOENT"
    /\ watch_requests[Len(watch_requests)].wd # -1
    /\ Len(setup_log) = 1
    /\ wd_to_path # {}


(***************************************************************************)
(* Claims about the order of one read's sends                              *)
(***************************************************************************)
\* The descriptions of the records of a buffer whose watch descriptor the
\* registry holds, in the order of the records.
RECURSIVE DescriptionsOf(_, _)
DescriptionsOf(records, registry) ==
    IF records = <<>> THEN <<>>
    ELSE (IF \E e \in registry : e[1] = Head(records).wd
          THEN <<[events |-> get_event_string(Head(records).mask),
                  path |-> (CHOOSE e \in registry : e[1] = Head(records).wd)[2]]>>
          ELSE <<>>) \o DescriptionsOf(Tail(records), registry)

IsEventSend(x) == x.ch = "event"

EventSends(sends) ==
    LET ev == SelectSeq(sends, IsEventSend) IN [i \in 1..Len(ev) |-> ev[i].msg]

\* C22: the verbose descriptions one read sends are those of its records whose
\* descriptor is in the registry, in buffer order (none with verbose output
\* off), a record with an unknown descriptor sends nothing, they are what the
\* read appends to the verbose-event channel, and the read's trigger is its
\* last send, after every record has been processed.
C22_RecordsInOrderThenTrigger ==
    /\ [](EventSends(fs_last.sends) =
             IF fs_watcher # Absent /\ fs_watcher.print_events
             THEN DescriptionsOf(fs_last.records, wd_to_path) ELSE <<>>)
    /\ [](\A i \in 1..Len(fs_last.sends) :
             fs_last.sends[i].ch = "trigger" =>
                 i = Len(fs_last.sends) /\ fs_last.decoded = fs_last.records)
    /\ [](Len(SelectSeq(fs_last.sends, IsEventSend)) + fs_last.triggers
             = Len(fs_last.sends))
    /\ [][(fs_pc = "reading" /\ fs_pc' = "reading" /\ <<event_q, trigger_q>>' # <<event_q, trigger_q>>
           /\ Len(event_q') >= Len(event_q) /\ trigger_q' >= trigger_q) =>
             /\ event_q' = event_q \o EventSends(fs_last'.sends)
             /\ trigger_q' = trigger_q + fs_last'.triggers]_vars

\* A read of two records of the watched directory with different masks,
\* verbose output on: two descriptions in buffer order, then the trigger.
C22_Witness ==
    /\ fs_watcher.print_events
    /\ Len(fs_last.records) = 2
    /\ fs_last.records[1].wd = 1 /\ fs_last.records[1].mask = 256 + 2
    /\ fs_last.records[2].wd = 1 /\ fs_last.records[2].mask = IN_OPEN
    /\ Len(fs_last.sends) = 3
    /\ fs_last.sends[1].msg.events = <<"MODIFY", "CREATE">>
    /\ fs_last.sends[2].msg.events = <<"OPEN">>
    /\ fs_last.sends[3].ch = "trigger"


(***************************************************************************)
(* Claims about failures of the bus loop and of the enumeration            *)
(***************************************************************************)
\* C23: a GetProcesses call that fails makes start_listening return the
\* error to the closure that called it, which only logs it: from then on the
\* bus thread takes no step (no poll, no announcement, nothing of the bus
\* scanner changes), the failing step changes nothing outside the bus
\* scanner, and the scheduling thread and the watcher thread can still take
\* their steps.
C23_BusFailureEndsBusLoopOnly ==
    /\ [](bus_pc = "returned" <=> bus_result = "err")
    /\ [][bus_pc = "returned" => UNCHANGED busVars]_vars
    /\ [][(bus_pc = "poll" /\ bus_pc' = "returned") =>
            /\ bus_events' = <<>>
            /\ UNCHANGED <<printed_processes, busHist, procVars, cfgVars, fsSetupVars,
                           fsRunVars, chanVars, scannerVars, schedVars>>]_vars
    /\ [](bus_pc = "returned" =>
            /\ fs_pc = "reading" => ENABLED SysFsRead
            /\ (sched_pc = "top" /\ is_active) => ENABLED SchedLoopTop
            /\ sched_pc \in {"scan_interval", "scan_trigger"} =>
                  ENABLED (SchedScanEnd \/ Tick)
            /\ sched_pc = "recv" =>
                  ENABLED (SchedRecv \/ SchedTimeout \/ SchedDisconnected \/ Tick))

\* The bus loop has ended on a failed poll after an earlier poll announced
\* PID 1, while the watcher thread reads, a trigger is pending and the
\* scheduling thread is in a scan.
C23_Witness ==
    /\ bus_pc = "returned"
    /\ bus_result = "err"
    /\ bus_reports[1] > 0
    /\ fs_pc = "reading"
    /\ trigger_q > 0
    /\ sched_pc = "scan_interval"

\* C24: a scheduled scan whose enumeration fails ends the scheduling loop,
\* and no scan is attempted afterwards.
C24_EnumFailureEndsSchedLoop ==
    /\ [][(SchedScanning /\ sched_pc' # sched_pc /\ ~scan_result'.ok) =>
             sched_pc' = "exited"]_vars
    /\ [](~scan_result.ok => ~SchedScanning)

\* What the code does with a failed enumeration: the scan's Err is logged,
\* last_process_scan is stamped as after a successful scan, the scanner's
\* sets stay as they were, and the loop goes back to its head.
C24_EnumFailureOnlyLogged ==
    [][(SchedScanning /\ sched_pc' # sched_pc /\ ~scan_result'.ok) =>
          /\ sched_pc' = "top"
          /\ since_last_scan' = 0
          /\ UNCHANGED <<seen_pids, current_pids, new_pids>>]_vars

\* The last scan failed to enumerate and the thread is in its next scan.
C24_Witness ==
    /\ ~scan_result.ok
    /\ SchedScanning
    /\ h_last \in {"interval", "triggered", "drained"}

(***************************************************************************)
(* Claims about the seen set                                               *)
(***************************************************************************)
\* C25: after a scan that returned Ok, every PID of seen_pids is in the
\* snapshot just enumerated (a PID absent from it has been evicted), and
\* seen_pids is exactly the PIDs of the snapshot reported during their
\* current contiguous presence interval.
C25_SeenIsReportedAndPresent ==
    scan_result.ok =>
        /\ seen_pids \subseteq current_pids
        /\ seen_pids = {p \in current_pids : run_reports[p] > 0}
        /\ \A p \in PIDs \ current_pids : p \notin seen_pids /\ run_reports[p] = 0

\* After a successful scan: PID 1, reported in an earlier scan, has exited
\* and is evicted; PID 2 is present and was reported, so it is seen.
C25_Witness ==
    /\ scan_result.ok
    /\ current_pids = {2}
    /\ seen_pids = {2}
    /\ run_reports[2] > 0
    /\ run_returns[1] >= 1
    /\ scan_events = <<>>

(***************************************************************************)
(* Claims about shutdown                                                   *)
(***************************************************************************)
\* C26: the shutdown flag, once cleared by the signal handler, is never set
\* again; event_loop then takes at most one more verbose event, leaves at its
\* next flag check, and does end, whether or not events keep arriving; it
\* also ends once the channel is disconnected.
C26_ShutdownObservedWithinOneCycle ==
    /\ [][~running => ~running']_vars
    /\ [](h_after <= 1)
    /\ [][(~running /\ loop_pc = "head" /\ loop_pc' # "head") =>
             loop_pc' = "done" /\ loop_out' = "shutting down"]_vars
    /\ [][loop_pc = "done" => loop_pc' = "done" /\ event_q' = event_q]_vars
    /\ (~running) ~> (loop_pc = "done")
    /\ (~event_tx) ~> (loop_pc = "done")

\* The flag was cleared while event_loop was in recv_timeout with events
\* queued: it took one of them, then left at the flag check with events
\* still queued.
C26_Witness ==
    /\ ~running
    /\ loop_pc = "done"
    /\ loop_out = "shutting down"
    /\ h_after = 1
    /\ event_q # <<>>
    /\ event_tx

(***************************************************************************)
(* Claims about the decoder's bounds                                       *)
(***************************************************************************)
\* C27: for every buffer and read size the decode loop ends, and every offset
\* at which it reads a record header has at least a full header of read
\* bytes after it.
C27_HeaderWithinRead ==
    \A i \in 1..Len(fs_last.offsets) :
        fs_last.offsets[i] + EVENT_SIZE <= fs_last.read_size

\* What the loop guarantees: it ends, every step moves the offset on by a
\* header plus the name length it read there, and each header it reads
\* starts before the end of the read; on a read of whole records, as
\* inotify delivers them, each header lies wholly inside the read and the
\* loop stops on the last byte.
C27_DecoderAdvancesAndEnds ==
    LET o == fs_last.offsets
    IN  /\ \A i \in 1..Len(o) : o[i] < fs_last.read_size
        /\ \A i \in 1..Len(o) :
              o[i] = IF i = 1 THEN 0
                     ELSE o[i - 1] + EVENT_SIZE + fs_last.decoded[i - 1].len
        /\ Len(o) = Len(fs_last.decoded)
        /\ Len(o) * EVENT_SIZE < fs_last.read_size + EVENT_SIZE
        /\ fs_last.read_size = ReadSize(fs_last.records) =>
              /\ fs_last.decoded = fs_last.records
              /\ \A i \in 1..Len(o) : o[i] + EVENT_SIZE <= fs_last.read_size

\* A read that returned one whole record and half a header: the loop read a
\* second header where only half of it had been read.
C27_Witness ==
    /\ Len(fs_last.records) = 2
    /\ fs_last.records[1].len = 0
    /\ fs_last.read_size = EVENT_SIZE + EVENT_SIZE \div 2
    /\ fs_last.offsets = <<0, EVENT_SIZE>>
    /\ Len(fs_last.decoded) = 2

(***************************************************************************)
(* Claims about the scheduler after the watcher thread has ended           *)
(***************************************************************************)
\* C28: once the watcher thread has ended and dropped the trigger senders,
\* the scheduling thread ends, on a disconnected and empty channel, and from
\* then on no scan runs, the periodic ones included.
C28_SchedulerEndsAfterSendersDropped ==
    /\ (~trigger_tx) ~> (sched_pc = "exited")
    /\ [][(sched_pc # "exited" /\ sched_pc' = "exited") => (~trigger_tx /\ trigger_q = 0)]_vars
    /\ [][sched_pc = "exited" => (sched_pc' = "exited" /\ UNCHANGED procCode)]_vars

\* The same for a scheduler whose periodic interval is not zero; with an
\* interval of zero the deadline has always passed at the head of the loop,
\* so the thread scans in every iteration, never calls recv_timeout and
\* never ends.
C28_SchedulerEndsUnlessIntervalZero ==
    /\ (~trigger_tx /\ scanner.interval # Some(0)) ~> (sched_pc = "exited")
    /\ [][(sched_pc # "exited" /\ sched_pc' = "exited") => (~trigger_tx /\ trigger_q = 0)]_vars
    /\ [][sched_pc = "exited" => (sched_pc' = "exited" /\ UNCHANGED procCode)]_vars
    /\ [](scanner.interval = Some(0) => sched_pc \notin {"recv", "exited"})

\* With a periodic interval configured, the thread has ended on the
\* disconnected channel after its last scan found PID 1.
C28_Witness ==
    /\ scanner.interval = Some(DEFAULT_SCAN_INTERVAL_MS)
    /\ ~trigger_tx
    /\ trigger_q = 0
    /\ sched_pc = "exited"
    /\ h_last = "disconnected"
    /\ seen_pids = {1}

(***************************************************************************)
(* Claims about the start of the scheduler                                 *)
(***************************************************************************)
\* C29: starting the scheduling thread scans nothing and stamps
\* last_process_scan with the start time; with a periodic interval the first
\* scan begins no earlier than one interval after the start; and a trigger
\* received before any scan, with less than the debounce floor elapsed since
\* the start, is dropped.
C29_NoScanAtStartup ==
    /\ [][(sched_pc = "new" /\ sched_pc' # "new") =>
             /\ sched_pc' \in {"top", "none"}
             /\ since_last_scan' = 0
             /\ ~h_scanned'
             /\ UNCHANGED procCode]_vars
    /\ [][(~h_scanned /\ h_scanned' /\ scanner.interval # None) =>
             h_since_scan >= scanner.interval[1]]_vars
    /\ [][(~h_scanned /\ h_scanned') => h_since_scan >= Floor]_vars
    /\ [][(sched_pc = "recv" /\ trigger_q' < trigger_q /\ ~h_scanned /\ h_since_scan < Floor) =>
             /\ sched_pc' = "top"
             /\ h_last' = "ignored"
             /\ ~h_scanned'
             /\ UNCHANGED procCode]_vars
    /\ [](~h_scanned => (seen_pids = {} /\ scan_events = <<>>))

\* With a periodic interval: no scan yet, a trigger that came after the
\* start has been dropped, and one interval has now passed.
C29_Witness ==
    /\ scanner.interval = Some(DEFAULT_SCAN_INTERVAL_MS)
    /\ ~h_scanned
    /\ h_dropped >= 1
    /\ h_last = "ignored"
    /\ sched_pc = "top"
    /\ since_last_scan = DEFAULT_SCAN_INTERVAL_MS

(***************************************************************************)
(* Claims about a scan whose enumeration fails                             *)
(***************************************************************************)
\* C30: a scan whose all_processes() fails returns the error with seen_pids,
\* current_pids and new_pids as they were and reports no process, so for
\* every snapshot and every outcome of the lookups the next successful scan
\* reports, and leaves behind, what it would have without the failed scan.
C30_FailedScanTouchesNothing ==
    [][~scan_result'.ok =>
          /\ UNCHANGED <<seen_pids, current_pids, new_pids>>
          /\ scan_events' = <<>>
          /\ \A processes \in Snapshots :
                \A lookup \in [SeqToSet(processes) -> Lookups] :
                   ScanOutcome(seen_pids', processes, lookup)
                      = ScanOutcome(seen_pids, processes, lookup)]_vars

\* After a failed scan: PID 1 is still seen, and PID 2, whose lookup failed
\* in the scan before, is still in the snapshot kept from that scan and
\* still unseen, for the next scan to report.
C30_Witness ==
    /\ ~scan_result.ok
    /\ scan_events = <<>>
    /\ seen_pids = {1}
    /\ current_pids = {1, 2}
    /\ last_failed = {2}

====
